---- MODULE Spec2Model ----
(***************************************************************************)
(* The OpenThread platform radio interface (include/platform/radio.h):     *)
(* the radio state machine Disabled -> Idle -> {Sleep, Receive, Transmit}  *)
(* -> Idle, the synchronous commands with their documented return values,  *)
(* the two completion callbacks the driver calls, and the single transmit  *)
(* buffer.  The header documents the transitions and the return values;    *)
(* the preconditions it leaves open are taken from the design document     *)
(* and kept in definitions of their own (EnablePre, DisablePre, ...).      *)
(***************************************************************************)
EXTENDS Integers, FiniteSets, Sequences, TLC

(* ---- constants of radio.h ---- *)
kMaxPHYPacketSize == 127
kPhyMinChannel == 11
kPhyMaxChannel == 26
kPhySymbolsPerOctet == 2
kPhyBitRate_Kilobits == 250000 \div 1000
kPhyBitRate == 250000
kPhyBitsPerOctet == 8
kPhyUsPerSymbol == ((kPhyBitsPerOctet \div kPhySymbolsPerOctet) * 1000000) \div kPhyBitRate
\* what otPlatRadioGetNoiseFloor returns when the noise floor value is invalid
NoiseFloorInvalid == 127

(* ---- bounds of the model ---- *)
\* number of receive sequences, and of transmit sequences, a behaviour starts
MaxSeq == 2

\* uint8_t aChannel values tried by otPlatRadioReceive
ReceiveChannels == {10, 11, 26, 27, 255}
\* uint8_t mLength values the caller writes into the transmit buffer
BufferLengths == {10, 127, 128}
\* uint8_t mChannel values the caller writes into the transmit buffer
BufferChannels == {15, 27}
\* uint16_t aPanId values, uint16_t aShortAddress values, 8-byte extended addresses
PanIds == {4660, 65535}
ShortAddresses == {1, 65534}
ExtendedAddresses == {<<0, 1, 2, 3, 4, 5, 6, 7>>, <<255, 255, 255, 255, 255, 255, 255, 255>>}
\* int8_t noise floor readings in dBm the radio measures
NoiseReadings == {-95, -60}

(* ---- types ---- *)
RadioStates == {"Disabled", "Idle", "Sleep", "Receive", "Transmit"}
\* the states in which a sequence is in flight and ends by itself
TransientStates == {"Receive", "Transmit"}
ThreadErrors == {"None", "Fail", "InvalidArgs", "Abort", "NoAck", "ChannelAccessFailure"}
RadioPacket == [mLength : BufferLengths, mChannel : BufferChannels]
\* the address filter configuration
AddressFilter == [panId : PanIds, extAddr : ExtendedAddresses, shortAddr : ShortAddresses]
\* the cached noise floor measurement
NoiseCache == [valid : BOOLEAN, dBm : NoiseReadings \cup {0}]

\* the error values the driver may pass to otPlatRadioReceiveDone
ReceiveDoneErrors == {"None", "Abort"}
\* the error values the driver may pass to otPlatRadioTransmitDone
TransmitDoneErrors_WithFail == {"None", "NoAck", "ChannelAccessFailure", "Abort", "Fail"}
TransmitDoneErrors == {"None", "NoAck", "ChannelAccessFailure", "Abort"}

VARIABLES
    state,            \* the radio state
    prevState,        \* the radio state before the last step
    txBuf,            \* the one transmit buffer (otPlatRadioGetTransmitBuffer)
    callerHolds,      \* the caller may write the transmit buffer
    driverHolds,      \* the driver may write the transmit buffer
    rxStarted,        \* otPlatRadioReceive calls that returned None
    rxDone,           \* otPlatRadioReceiveDone callbacks delivered
    txStarted,        \* otPlatRadioTransmit calls that returned None
    txDone,           \* otPlatRadioTransmitDone callbacks delivered
    filter,           \* the address filter: PAN ID, extended and short address
    noise,            \* the cached noise floor measurement
    lastOp,           \* the operation or callback of the last step
    lastArg,          \* its numeric argument (aChannel, aPanId, aShortAddress,
                      \* the reading measured) or numeric result (noise floor), else 0
    lastRet,          \* its return value, or the callback's error
    lastFramePending  \* aFramePending of the last step if it was TransmitDone

vars == <<state, prevState, txBuf, callerHolds, driverHolds, rxStarted, rxDone,
          txStarted, txDone, filter, noise, lastOp, lastArg, lastRet,
          lastFramePending>>

(* ---- helpers ---- *)
ValidChannel_NoUpperBound(ch) == ch >= kPhyMinChannel
ValidChannel(ch) == ch >= kPhyMinChannel /\ ch <= kPhyMaxChannel

\* the argument checks of the two sequence commands
ReceiveArgsOk(ch) == ValidChannel(ch)
ValidPacket(p) == p.mLength <= kMaxPHYPacketSize /\ ValidChannel(p.mChannel)

(* ---- preconditions on the radio state ---- *)
EnablePre(s) == s = "Disabled"
DisablePre(s) == s \notin TransientStates
SleepPre(s) == s = "Idle"
IdlePre(s) == s \in {"Sleep", "Idle"}
ReceiveDonePre(s) == s = "Receive"
TransmitDonePre(s) == s = "Transmit"

(* ---- return values of the commands; hwOk: the hardware made the transition ---- *)
EnableResult(s, hwOk) == IF EnablePre(s) /\ hwOk THEN "None" ELSE "Fail"
DisableResult_AnyState(s, hwOk) == IF hwOk THEN "None" ELSE "Fail"
DisableResult(s, hwOk) == IF DisablePre(s) /\ hwOk THEN "None" ELSE "Fail"
SleepResult(s, hwOk) == IF SleepPre(s) /\ hwOk THEN "None" ELSE "Fail"
IdleResult_AnyState(s, hwOk) == IF hwOk THEN "None" ELSE "Fail"
IdleResult(s, hwOk) == IF IdlePre(s) /\ hwOk THEN "None" ELSE "Fail"

ReceiveResult_AnyState(s, ch, hwOk) ==
    IF ReceiveArgsOk(ch) /\ hwOk THEN "None" ELSE "Fail"
ReceiveResult(s, ch, hwOk) ==
    IF s = "Idle" /\ ReceiveArgsOk(ch) /\ hwOk THEN "None" ELSE "Fail"

TransmitResult_NoCheck(s, p, hwOk) ==
    IF s = "Idle" /\ hwOk THEN "None" ELSE "Fail"
TransmitResult_FromSleep(s, p, hwOk) ==
    IF ~ValidPacket(p) THEN "InvalidArgs"
    ELSE IF s \in {"Idle", "Sleep"} /\ hwOk THEN "None" ELSE "Fail"
TransmitResult_ReportsBusyChannel(s, p, hwOk) ==
    IF ~ValidPacket(p) THEN "InvalidArgs"
    ELSE IF s = "Idle" /\ hwOk THEN "None"
    ELSE IF s = "Idle" THEN "ChannelAccessFailure" ELSE "Fail"
TransmitResult(s, p, hwOk) ==
    IF ~ValidPacket(p) THEN "InvalidArgs"
    ELSE IF s = "Idle" /\ hwOk THEN "None" ELSE "Fail"

(* ---- the state a command leaves, given its return value ---- *)
EnableState_Partial(s, ret) == IF EnablePre(s) THEN "Idle" ELSE s
EnableState(s, ret) == IF ret = "None" THEN "Idle" ELSE s
DisableState(s, ret) == IF ret = "None" THEN "Disabled" ELSE s
SleepState_FailStillSleeps(s, ret) == IF s = "Idle" THEN "Sleep" ELSE s
SleepState(s, ret) == IF ret = "None" THEN "Sleep" ELSE s
IdleState(s, ret) == IF ret = "None" THEN "Idle" ELSE s
ReceiveState_FailStillListens(s, ret) == IF s = "Idle" THEN "Receive" ELSE s
ReceiveState(s, ret) == IF ret = "None" THEN "Receive" ELSE s
TransmitState_Synchronous(s, ret) == s
TransmitState(s, ret) == IF ret = "None" THEN "Transmit" ELSE s

(* ---- the state a sequence ends in, whatever its outcome ---- *)
ReceiveDoneState_AbortPowersDown(error) == IF error = "Abort" THEN "Sleep" ELSE "Idle"
ReceiveDoneState(error) == "Idle"
TransmitDoneState_AbortPowersDown(error) == IF error = "Abort" THEN "Sleep" ELSE "Idle"
TransmitDoneState(error) == "Idle"

\* aFramePending may be TRUE only when an ACK frame was received
FramePendingAllowed_AnyTransmitted(error) == error \in {"None", "NoAck"}
FramePendingAllowed(error) == error = "None"

(* ---- address filter: what each setter stores ---- *)
SetPanIdFilter(f, aPanId) == [f EXCEPT !.panId = aPanId]
SetExtendedAddressFilter(f, aExtendedAddress) == [f EXCEPT !.extAddr = aExtendedAddress]
SetShortAddressFilter_ClobbersPanId(f, aShortAddress) ==
    [f EXCEPT !.shortAddr = aShortAddress, !.panId = aShortAddress]
SetShortAddressFilter(f, aShortAddress) == [f EXCEPT !.shortAddr = aShortAddress]
\* a setter returns None when the value was set properly, else Fail
SetterResult(hwOk) == IF hwOk THEN "None" ELSE "Fail"

(* ---- noise floor ---- *)
\* the radio may measure the noise floor while it is powered and not asleep
MeasurePre(s) == s \in {"Idle", "Receive", "Transmit"}
\* a valid reading replaces the cached one, an invalid one is dropped
NoiseCacheAfter(n, valid, reading) ==
    IF valid THEN [valid |-> TRUE, dBm |-> reading] ELSE n
GetNoiseFloorResult_RawCache(n) == n.dBm
GetNoiseFloorResult(n) == IF n.valid THEN n.dBm ELSE NoiseFloorInvalid

(* ---- the state after otPlatRadioInit() ---- *)
Init ==
    /\ state = "Disabled"
    /\ prevState = "Disabled"
    /\ txBuf \in RadioPacket
    /\ callerHolds = TRUE
    /\ driverHolds = FALSE
    /\ rxStarted = 0
    /\ rxDone = 0
    /\ txStarted = 0
    /\ txDone = 0
    /\ filter \in AddressFilter
    /\ noise = [valid |-> FALSE, dBm |-> 0]
    /\ lastOp = "Init"
    /\ lastArg = 0
    /\ lastRet = "None"
    /\ lastFramePending = FALSE

\* what a command records about itself
Returned(op, arg, ret) ==
    /\ prevState' = state
    /\ lastOp' = op
    /\ lastArg' = arg
    /\ lastRet' = ret
    /\ lastFramePending' = FALSE

(* ---- commands ---- *)
otPlatRadioEnable ==
    \E hwOk \in BOOLEAN :
        LET ret == EnableResult(state, hwOk) IN
        /\ state' = EnableState(state, ret)
        /\ Returned("Enable", 0, ret)
        /\ UNCHANGED <<txBuf, callerHolds, driverHolds, rxStarted, rxDone, txStarted, txDone>>
        /\ UNCHANGED <<filter, noise>>

otPlatRadioDisable ==
    \E hwOk \in BOOLEAN :
        LET ret == DisableResult(state, hwOk) IN
        /\ state' = DisableState(state, ret)
        /\ Returned("Disable", 0, ret)
        /\ UNCHANGED <<txBuf, callerHolds, driverHolds, rxStarted, rxDone, txStarted, txDone>>
        /\ UNCHANGED <<filter, noise>>

otPlatRadioSleep ==
    \E hwOk \in BOOLEAN :
        LET ret == SleepResult(state, hwOk) IN
        /\ state' = SleepState(state, ret)
        /\ Returned("Sleep", 0, ret)
        /\ UNCHANGED <<txBuf, callerHolds, driverHolds, rxStarted, rxDone, txStarted, txDone>>
        /\ UNCHANGED <<filter, noise>>

otPlatRadioIdle ==
    \E hwOk \in BOOLEAN :
        LET ret == IdleResult(state, hwOk) IN
        /\ state' = IdleState(state, ret)
        /\ Returned("Idle", 0, ret)
        /\ UNCHANGED <<txBuf, callerHolds, driverHolds, rxStarted, rxDone, txStarted, txDone>>
        /\ UNCHANGED <<filter, noise>>

otPlatRadioReceive ==
    \E aChannel \in ReceiveChannels, hwOk \in BOOLEAN :
        LET ret == ReceiveResult(state, aChannel, hwOk) IN
        /\ rxStarted < MaxSeq
        /\ state' = ReceiveState(state, ret)
        /\ rxStarted' = IF ret = "None" THEN rxStarted + 1 ELSE rxStarted
        /\ Returned("Receive", aChannel, ret)
        /\ UNCHANGED <<txBuf, callerHolds, driverHolds, rxDone, txStarted, txDone>>
        /\ UNCHANGED <<filter, noise>>

\* the caller forms a frame in the buffer otPlatRadioGetTransmitBuffer returns
otPlatRadioGetTransmitBuffer ==
    \E p \in RadioPacket :
        /\ callerHolds
        /\ txBuf' = p
        /\ Returned("GetTransmitBuffer", 0, "None")
        /\ UNCHANGED <<state, callerHolds, driverHolds, rxStarted, rxDone, txStarted, txDone>>
        /\ UNCHANGED <<filter, noise>>

otPlatRadioTransmit ==
    \E hwOk \in BOOLEAN :
        LET ret == TransmitResult(state, txBuf, hwOk) IN
        /\ txStarted < MaxSeq
        /\ state' = TransmitState(state, ret)
        /\ txStarted' = IF ret = "None" THEN txStarted + 1 ELSE txStarted
        /\ callerHolds' = IF ret = "None" THEN FALSE ELSE callerHolds
        /\ driverHolds' = IF ret = "None" THEN TRUE ELSE driverHolds
        /\ Returned("Transmit", 0, ret)
        /\ UNCHANGED <<txBuf, rxStarted, rxDone, txDone>>
        /\ UNCHANGED <<filter, noise>>

(* ---- configuration and telemetry ---- *)
otPlatRadioSetPanId ==
    \E aPanId \in PanIds, hwOk \in BOOLEAN :
        LET ret == SetterResult(hwOk) IN
        /\ filter' = IF ret = "None" THEN SetPanIdFilter(filter, aPanId) ELSE filter
        /\ Returned("SetPanId", aPanId, ret)
        /\ UNCHANGED <<state, txBuf, callerHolds, driverHolds, rxStarted, rxDone,
                       txStarted, txDone, noise>>

otPlatRadioSetExtendedAddress ==
    \E aExtendedAddress \in ExtendedAddresses, hwOk \in BOOLEAN :
        LET ret == SetterResult(hwOk) IN
        /\ filter' = IF ret = "None"
                      THEN SetExtendedAddressFilter(filter, aExtendedAddress)
                      ELSE filter
        /\ Returned("SetExtendedAddress", 0, ret)
        /\ UNCHANGED <<state, txBuf, callerHolds, driverHolds, rxStarted, rxDone,
                       txStarted, txDone, noise>>

otPlatRadioSetShortAddress ==
    \E aShortAddress \in ShortAddresses, hwOk \in BOOLEAN :
        LET ret == SetterResult(hwOk) IN
        /\ filter' = IF ret = "None"
                      THEN SetShortAddressFilter(filter, aShortAddress)
                      ELSE filter
        /\ Returned("SetShortAddress", aShortAddress, ret)
        /\ UNCHANGED <<state, txBuf, callerHolds, driverHolds, rxStarted, rxDone,
                       txStarted, txDone, noise>>

otPlatRadioGetNoiseFloor ==
    /\ Returned("GetNoiseFloor", GetNoiseFloorResult(noise), "None")
    /\ UNCHANGED <<state, txBuf, callerHolds, driverHolds, rxStarted, rxDone,
                   txStarted, txDone, filter, noise>>

\* the radio takes an RSSI measurement; lastRet records whether it was valid
MeasureNoiseFloor ==
    \E reading \in NoiseReadings, valid \in BOOLEAN :
        /\ MeasurePre(state)
        /\ noise' = NoiseCacheAfter(noise, valid, reading)
        /\ Returned("MeasureNoiseFloor", reading, IF valid THEN "None" ELSE "Fail")
        /\ UNCHANGED <<state, txBuf, callerHolds, driverHolds, rxStarted, rxDone,
                       txStarted, txDone, filter>>

(* ---- completion callbacks, called by the driver ---- *)
otPlatRadioReceiveDone ==
    \E error \in ReceiveDoneErrors :
        /\ ReceiveDonePre(state)
        /\ state' = ReceiveDoneState(error)
        /\ prevState' = state
        /\ rxDone' = rxDone + 1
        /\ lastOp' = "ReceiveDone"
        /\ lastArg' = 0
        /\ lastRet' = error
        /\ lastFramePending' = FALSE
        /\ UNCHANGED <<txBuf, callerHolds, driverHolds, rxStarted, txStarted, txDone>>
        /\ UNCHANGED <<filter, noise>>

otPlatRadioTransmitDone_KeepsBuffer ==
    \E error \in TransmitDoneErrors, aFramePending \in BOOLEAN :
        /\ TransmitDonePre(state)
        /\ aFramePending => FramePendingAllowed(error)
        /\ state' = TransmitDoneState(error)
        /\ prevState' = state
        /\ txDone' = txDone + 1
        /\ callerHolds' = TRUE
        /\ driverHolds' = driverHolds
        /\ lastOp' = "TransmitDone"
        /\ lastArg' = 0
        /\ lastRet' = error
        /\ lastFramePending' = aFramePending
        /\ UNCHANGED <<txBuf, rxStarted, rxDone, txStarted>>
        /\ UNCHANGED <<filter, noise>>

otPlatRadioTransmitDone ==
    \E error \in TransmitDoneErrors, aFramePending \in BOOLEAN :
        /\ TransmitDonePre(state)
        /\ aFramePending => FramePendingAllowed(error)
        /\ state' = TransmitDoneState(error)
        /\ prevState' = state
        /\ txDone' = txDone + 1
        /\ callerHolds' = TRUE
        /\ driverHolds' = FALSE
        /\ lastOp' = "TransmitDone"
        /\ lastArg' = 0
        /\ lastRet' = error
        /\ lastFramePending' = aFramePending
        /\ UNCHANGED <<txBuf, rxStarted, rxDone, txStarted>>
        /\ UNCHANGED <<filter, noise>>

Next ==
    \/ otPlatRadioEnable
    \/ otPlatRadioDisable
    \/ otPlatRadioSleep
    \/ otPlatRadioIdle
    \/ otPlatRadioReceive
    \/ otPlatRadioGetTransmitBuffer
    \/ otPlatRadioTransmit
    \/ otPlatRadioReceiveDone
    \/ otPlatRadioTransmitDone
    \/ otPlatRadioSetPanId
    \/ otPlatRadioSetExtendedAddress
    \/ otPlatRadioSetShortAddress
    \/ otPlatRadioGetNoiseFloor
    \/ MeasureNoiseFloor

Spec == Init /\ [][Next]_vars

\* the driver's completion path runs: a sequence in flight is concluded
FairSpec ==
    /\ Spec
    /\ WF_vars(otPlatRadioReceiveDone)
    /\ WF_vars(otPlatRadioTransmitDone)

TypeOK ==
    /\ state \in RadioStates
    /\ prevState \in RadioStates
    /\ txBuf \in RadioPacket
    /\ callerHolds \in BOOLEAN
    /\ driverHolds \in BOOLEAN
    /\ rxStarted \in 0..MaxSeq
    /\ rxDone \in 0..MaxSeq
    /\ txStarted \in 0..MaxSeq
    /\ txDone \in 0..MaxSeq
    /\ filter \in AddressFilter
    /\ noise \in NoiseCache
    /\ lastRet \in ThreadErrors
    /\ lastFramePending \in BOOLEAN

(***************************************************************************)
(* Properties                                                              *)
(***************************************************************************)
\* the three states in which the radio is in use
ActiveStates == {"Sleep", "Receive", "Transmit"}

\* C1 (as stated): otPlatRadioReceive with a channel outside [11,26] returns
\* the invalid-argument error and does not change the radio state.
C1_Original ==
    (lastOp = "Receive" /\ lastArg \notin 11..26)
        => (lastRet = "InvalidArgs" /\ state = prevState)

\* C1 (amended): otPlatRadioReceive with a channel outside [11,26] returns
\* Fail, the one failure value it documents, in whatever state it is called;
\* the radio state is unchanged and no receive sequence starts.
C1_ReceiveBadChannelFails ==
    [][(lastOp' = "Receive" /\ lastArg' \notin 11..26)
        => (/\ lastRet' = "Fail"
            /\ state' = state
            /\ rxStarted' = rxStarted
            /\ (state = "Idle" => state' = "Idle"))]_vars

C1_Witness ==
    /\ lastOp = "Receive"
    /\ lastArg = 27
    /\ lastRet = "Fail"
    /\ prevState = "Idle"
    /\ state = "Idle"

\* C2: otPlatRadioTransmit called while the transmit buffer's length exceeds
\* 127 returns InvalidArgs, the state does not become Transmit, and the call
\* adds no TransmitDone: a TransmitDone is owed only while a transmit that
\* returned None is in flight.
C2_TransmitTooLongRejected ==
    /\ [][(lastOp' = "Transmit" /\ txBuf.mLength > 127)
            => (/\ lastRet' = "InvalidArgs"
                /\ state' = state
                /\ txStarted' = txStarted
                /\ txDone' = txDone)]_vars
    /\ [](txStarted - txDone = IF state = "Transmit" THEN 1 ELSE 0)
    /\ [][txDone' # txDone => state = "Transmit"]_vars

C2_Witness ==
    /\ lastOp = "Transmit"
    /\ txBuf.mLength = 128
    /\ lastRet = "InvalidArgs"
    /\ prevState = "Idle"
    /\ state = "Idle"
    /\ txStarted = txDone

\* C3: every otPlatRadioReceive that returns None is eventually followed by
\* otPlatRadioReceiveDone, with error None or Abort, and the state is Idle
\* once that callback has fired.
C3_ReceiveEventuallyDone ==
    (lastOp = "Receive" /\ lastRet = "None")
        ~> (/\ lastOp = "ReceiveDone"
            /\ lastRet \in {"None", "Abort"}
            /\ rxDone = rxStarted
            /\ state = "Idle")

C3_Witness ==
    /\ lastOp = "ReceiveDone"
    /\ lastRet = "Abort"
    /\ rxStarted = 1
    /\ rxDone = 1
    /\ state = "Idle"

\* C4: otPlatRadioReceiveDone fires once per receive sequence: never more
\* callbacks than successful otPlatRadioReceive calls, exactly one owed while
\* a sequence is in flight, none for a failed call, and its error is None or
\* Abort.
C4_ReceiveDoneOncePerSequence ==
    /\ [](rxDone <= rxStarted)
    /\ [](rxStarted - rxDone = IF state = "Receive" THEN 1 ELSE 0)
    /\ [](lastOp = "ReceiveDone" => lastRet \in {"None", "Abort"})
    /\ [][(lastOp' = "Receive" /\ lastRet' # "None")
            => (rxStarted' = rxStarted /\ rxDone' = rxDone /\ state' = state)]_vars
    /\ [][rxDone' # rxDone => (rxDone' = rxDone + 1 /\ lastOp' = "ReceiveDone")]_vars

C4_Witness ==
    /\ lastOp = "ReceiveDone"
    /\ lastRet = "None"
    /\ rxStarted = 2
    /\ rxDone = 2

\* C5: every otPlatRadioTransmit that returns None is eventually followed by
\* otPlatRadioTransmitDone, with one of the four outcomes, and the state is
\* Idle once that callback has fired.
C5_TransmitEventuallyDone ==
    (lastOp = "Transmit" /\ lastRet = "None")
        ~> (/\ lastOp = "TransmitDone"
            /\ lastRet \in {"None", "NoAck", "ChannelAccessFailure", "Abort"}
            /\ txDone = txStarted
            /\ state = "Idle")

C5_Witness ==
    /\ lastOp = "TransmitDone"
    /\ lastRet = "NoAck"
    /\ lastFramePending = FALSE
    /\ txBuf = [mLength |-> 10, mChannel |-> 15]
    /\ txStarted = 1
    /\ txDone = 1
    /\ state = "Idle"

\* C6: otPlatRadioTransmitDone fires once per transmit request: never more
\* callbacks than successful otPlatRadioTransmit calls, exactly one owed
\* while a transmit is in flight, and each carries one of None, NoAck,
\* ChannelAccessFailure, Abort.
C6_TransmitDoneOncePerRequest ==
    /\ [](txDone <= txStarted)
    /\ [](txStarted - txDone = IF state = "Transmit" THEN 1 ELSE 0)
    /\ [](lastOp = "TransmitDone"
            => lastRet \in {"None", "NoAck", "ChannelAccessFailure", "Abort"})
    /\ [][txDone' # txDone => (txDone' = txDone + 1 /\ lastOp' = "TransmitDone")]_vars

C6_Witness ==
    /\ lastOp = "TransmitDone"
    /\ lastRet = "ChannelAccessFailure"
    /\ txStarted = 2
    /\ txDone = 2

\* C7: otPlatRadioEnable called in Disabled leaves the state Idle when it
\* returns None and Disabled when it returns Fail, and changes nothing else.
C7_EnableAllOrNothing ==
    [][(lastOp' = "Enable" /\ state = "Disabled")
        => (/\ \/ (lastRet' = "None" /\ state' = "Idle")
               \/ (lastRet' = "Fail" /\ state' = "Disabled")
            /\ UNCHANGED <<txBuf, callerHolds, driverHolds,
                           rxStarted, rxDone, txStarted, txDone, filter, noise>>)]_vars

C7_Witness ==
    /\ lastOp = "Enable"
    /\ lastRet = "Fail"
    /\ prevState = "Disabled"
    /\ state = "Disabled"

\* C8: in Disabled, otPlatRadioReceive with a valid channel, otPlatRadioSleep
\* and otPlatRadioTransmit of a valid frame return Fail, a Transmit of a
\* malformed frame fails too, the state stays Disabled, and only an
\* otPlatRadioEnable that returns None leaves Disabled.
C8_DisabledRejectsCommands ==
    /\ [][(state = "Disabled" /\ lastOp' = "Receive" /\ lastArg' \in 11..26)
            => (lastRet' = "Fail" /\ state' = "Disabled")]_vars
    /\ [][(state = "Disabled" /\ lastOp' = "Sleep")
            => (lastRet' = "Fail" /\ state' = "Disabled")]_vars
    /\ [][(state = "Disabled" /\ lastOp' = "Transmit")
            => (/\ lastRet' # "None"
                /\ (txBuf.mLength <= 127 /\ txBuf.mChannel \in 11..26
                        => lastRet' = "Fail")
                /\ state' = "Disabled")]_vars
    /\ [][(state = "Disabled" /\ state' # "Disabled")
            => (lastOp' = "Enable" /\ lastRet' = "None" /\ state' = "Idle")]_vars

C8_Witness ==
    /\ lastOp = "Receive"
    /\ lastArg = 11
    /\ lastRet = "Fail"
    /\ prevState = "Disabled"
    /\ state = "Disabled"

\* C9 (as stated): Sleep, Receive and Transmit are each entered only from
\* Idle and each left only for Idle.
C9_Original ==
    /\ (state \in ActiveStates /\ prevState # state) => prevState = "Idle"
    /\ (prevState \in ActiveStates /\ state # prevState) => state = "Idle"

\* C9 (amended): at most one of Sleep, Receive, Transmit is active; each is
\* entered only from Idle; Receive and Transmit are left only for Idle, and
\* Sleep is left only for Idle or, by an otPlatRadioDisable that returns
\* None, for Disabled.
C9_SerializedThroughIdle ==
    /\ [](state \in {"Disabled", "Idle", "Sleep", "Receive", "Transmit"})
    /\ []((state \in ActiveStates /\ prevState # state) => prevState = "Idle")
    /\ []((prevState \in {"Receive", "Transmit"} /\ state # prevState)
            => state = "Idle")
    /\ []((prevState = "Sleep" /\ state # prevState)
            => \/ state = "Idle"
               \/ (state = "Disabled" /\ lastOp = "Disable" /\ lastRet = "None"))
    /\ [][state' # state => prevState' = state]_vars

C9_Witness ==
    /\ prevState = "Sleep"
    /\ state = "Disabled"
    /\ lastOp = "Disable"
    /\ lastRet = "None"

StateCommands == {"Enable", "Disable", "Sleep", "Idle", "Receive"}

\* C11: the state after otPlatRadioInit is Disabled, the state stays Disabled
\* until an otPlatRadioEnable returns None, and that call alone moves it to
\* Idle.
C11_InitDisabledUntilEnable ==
    /\ [](lastOp = "Init" => (state = "Disabled" /\ prevState = "Disabled"))
    /\ [][(state = "Disabled" /\ ~(lastOp' = "Enable" /\ lastRet' = "None"))
            => state' = "Disabled"]_vars
    /\ [][(state = "Disabled" /\ lastOp' = "Enable" /\ lastRet' = "None")
            => state' = "Idle"]_vars

C11_Witness ==
    /\ lastOp = "Enable"
    /\ lastRet = "None"
    /\ prevState = "Disabled"
    /\ state = "Idle"
    /\ rxStarted = 0
    /\ txStarted = 0

\* C12: NoAck and ChannelAccessFailure reach the caller only through
\* otPlatRadioTransmitDone; otPlatRadioTransmit returns None, InvalidArgs or
\* Fail, and Enable, Disable, Sleep, Idle and Receive return None or Fail.
C12_ReturnValuesDisjoint ==
    /\ (lastRet \in {"NoAck", "ChannelAccessFailure"} => lastOp = "TransmitDone")
    /\ (lastOp = "Transmit" => lastRet \in {"None", "InvalidArgs", "Fail"})
    /\ (lastOp \in StateCommands => lastRet \in {"None", "Fail"})

C12_Witness ==
    /\ lastOp = "TransmitDone"
    /\ lastRet = "ChannelAccessFailure"
    /\ prevState = "Transmit"
    /\ txDone = 1

\* C13: when otPlatRadioReceive (otPlatRadioTransmit) returns None the state
\* is Receive (Transmit) and the call itself has delivered no callback: the
\* sequence's callback is still owed.
C13_SuccessMeansStarted ==
    /\ []((lastOp = "Receive" /\ lastRet = "None")
            => (state = "Receive" /\ rxDone = rxStarted - 1))
    /\ []((lastOp = "Transmit" /\ lastRet = "None")
            => (state = "Transmit" /\ txDone = txStarted - 1))
    /\ [][lastOp' \in {"Receive", "Transmit"}
            => (rxDone' = rxDone /\ txDone' = txDone)]_vars

C13_Witness ==
    /\ lastOp = "Transmit"
    /\ lastRet = "None"
    /\ state = "Transmit"
    /\ txStarted = 1
    /\ txDone = 0

\* C15: otPlatRadioTransmitDone carries aFramePending = TRUE only with error
\* None: with NoAck, ChannelAccessFailure or Abort it is FALSE.
C15_FramePendingOnlyWithAck ==
    (lastOp = "TransmitDone" /\ lastRet \in {"NoAck", "ChannelAccessFailure", "Abort"})
        => lastFramePending = FALSE

C15_Witness ==
    /\ lastOp = "TransmitDone"
    /\ lastRet = "Abort"
    /\ lastFramePending = FALSE
    /\ prevState = "Transmit"
    /\ txDone = 2

\* C16 (as stated): otPlatRadioReceive or otPlatRadioTransmit called while the
\* state is Receive or Transmit returns Fail and leaves the state as it was.
C16_Original ==
    (prevState \in {"Receive", "Transmit"} /\ lastOp \in {"Receive", "Transmit"})
        => (lastRet = "Fail" /\ state = prevState)

\* C16 (amended): otPlatRadioReceive or otPlatRadioTransmit called while the
\* state is Receive or Transmit fails, with Fail, or with InvalidArgs for a
\* Transmit whose frame is malformed, and is not queued: the state, the
\* sequence in flight and the callbacks owed are unchanged.
C16_ReentrantCallRejected ==
    /\ [][(state \in {"Receive", "Transmit"} /\ lastOp' \in {"Receive", "Transmit"})
            => (/\ IF lastOp' = "Transmit"
                      /\ (txBuf.mLength > 127 \/ txBuf.mChannel \notin 11..26)
                   THEN lastRet' = "InvalidArgs"
                   ELSE lastRet' = "Fail"
                /\ state' = state
                /\ UNCHANGED <<rxStarted, rxDone, txStarted, txDone, txBuf,
                               callerHolds, driverHolds>>)]_vars
    /\ [](rxStarted - rxDone + txStarted - txDone
            = IF state \in {"Receive", "Transmit"} THEN 1 ELSE 0)

C16_Witness ==
    /\ lastOp = "Transmit"
    /\ lastRet = "InvalidArgs"
    /\ prevState = "Receive"
    /\ state = "Receive"

\* C17: otPlatRadioReceiveDone is delivered only while the state is Receive
\* and otPlatRadioTransmitDone only while it is Transmit; none is delivered
\* in Disabled, Idle or Sleep, and a command interleaved with a sequence in
\* flight does not move the state away from under its callback.
C17_CallbacksOnlyInSequence ==
    /\ [](lastOp = "ReceiveDone" => prevState = "Receive")
    /\ [](lastOp = "TransmitDone" => prevState = "Transmit")
    /\ [][(rxDone' # rxDone \/ txDone' # txDone)
            => state \notin {"Disabled", "Idle", "Sleep"}]_vars
    /\ [][(state \in {"Receive", "Transmit"} /\ state' # state)
            => lastOp' \in {"ReceiveDone", "TransmitDone"}]_vars

C17_Witness ==
    /\ lastOp = "Disable"
    /\ lastRet = "Fail"
    /\ prevState = "Receive"
    /\ state = "Receive"

\* C14: otPlatRadioGetNoiseFloor returns 127 while no valid measurement
\* exists, in any radio state, and the most recent valid reading otherwise;
\* an invalid measurement does not replace a valid one, and the call changes
\* neither the radio state nor anything else.
C14_NoiseFloorSentinel ==
    /\ [](lastOp = "GetNoiseFloor"
            => (/\ lastArg = IF noise.valid THEN noise.dBm ELSE 127
                /\ state = prevState))
    /\ [][lastOp' = "GetNoiseFloor"
            => UNCHANGED <<state, noise, filter, txBuf, callerHolds, driverHolds,
                           rxStarted, rxDone, txStarted, txDone>>]_vars
    /\ [][lastOp' = "MeasureNoiseFloor"
            => noise' = IF lastRet' = "None"
                        THEN [valid |-> TRUE, dBm |-> lastArg']
                        ELSE noise]_vars
    /\ [][noise' # noise => (lastOp' = "MeasureNoiseFloor" /\ lastRet' = "None")]_vars

C14_Witness ==
    /\ lastOp = "GetNoiseFloor"
    /\ lastArg = 127
    /\ ~noise.valid
    /\ state = "Receive"

\* C18: otPlatRadioSleep returns None only from Idle and then the state is
\* Sleep; otPlatRadioIdle called in Sleep leaves Idle when it returns None;
\* a failing Sleep or Idle leaves the state as it was; neither touches the
\* address filter, so Sleep then Idle returns to Idle with the filter as set.
C18_SleepIdleRoundTrip ==
    /\ [][lastOp' = "Sleep"
            => IF lastRet' = "None"
               THEN state = "Idle" /\ state' = "Sleep"
               ELSE state' = state]_vars
    /\ [][(lastOp' = "Idle" /\ state = "Sleep")
            => IF lastRet' = "None" THEN state' = "Idle" ELSE state' = "Sleep"]_vars
    /\ [][(lastOp' = "Idle" /\ lastRet' # "None") => state' = state]_vars
    /\ [][lastOp' \in {"Sleep", "Idle"} => filter' = filter]_vars

C18_Witness ==
    /\ lastOp = "Idle"
    /\ lastRet = "None"
    /\ prevState = "Sleep"
    /\ state = "Idle"
    /\ filter.panId = 4660

\* C19: each of otPlatRadioSetPanId, otPlatRadioSetExtendedAddress and
\* otPlatRadioSetShortAddress changes only its own field of the address
\* filter and not the radio state, stores the value given when it returns
\* None, and a field changes in no step but a call of its own setter.
C19_SettersIndependent ==
    /\ [][lastOp' = "SetPanId"
            => (/\ filter'.extAddr = filter.extAddr
                /\ filter'.shortAddr = filter.shortAddr
                /\ state' = state
                /\ (lastRet' = "None" => filter'.panId = lastArg'))]_vars
    /\ [][lastOp' = "SetShortAddress"
            => (/\ filter'.extAddr = filter.extAddr
                /\ filter'.panId = filter.panId
                /\ state' = state
                /\ (lastRet' = "None" => filter'.shortAddr = lastArg'))]_vars
    /\ [][lastOp' = "SetExtendedAddress"
            => (/\ filter'.panId = filter.panId
                /\ filter'.shortAddr = filter.shortAddr
                /\ state' = state)]_vars
    /\ [][filter'.panId # filter.panId => lastOp' = "SetPanId"]_vars
    /\ [][filter'.shortAddr # filter.shortAddr => lastOp' = "SetShortAddress"]_vars
    /\ [][filter'.extAddr # filter.extAddr => lastOp' = "SetExtendedAddress"]_vars

C19_Witness ==
    /\ lastOp = "SetShortAddress"
    /\ lastRet = "None"
    /\ lastArg = 65534
    /\ filter.shortAddr = 65534
    /\ filter.panId = 4660
    /\ state = "Idle"

\* C20: in every state of the radio the symbol period
\* ((8 / 2) * 1000000) / 250000 is exactly 16 microseconds, and neither
\* integer division leaves a remainder.
C20_SymbolPeriod ==
    /\ state \in RadioStates
    /\ kPhyUsPerSymbol = 16
    /\ kPhyBitsPerOctet % kPhySymbolsPerOctet = 0
    /\ ((kPhyBitsPerOctet \div kPhySymbolsPerOctet) * 1000000) % kPhyBitRate = 0
    /\ kPhyUsPerSymbol * kPhyBitRate * kPhySymbolsPerOctet = kPhyBitsPerOctet * 1000000

C20_Witness ==
    /\ ((8 \div 2) * 1000000) \div 250000 = kPhyUsPerSymbol
    /\ lastOp = "Init"

====
